---- MODULE Spec2Model ----
(***************************************************************************)
(* A model of quantum-sim: the QuantumSimulator wrapper of pyquant.py (a   *)
(* qiskit QuantumCircuit plus an AerSimulator) and the token encoders of   *)
(* quantum_token_processor.py.                                             *)
(*                                                                         *)
(* The circuit is the operation log the wrapper builds through the qiskit  *)
(* QuantumCircuit calls; every call checks its qubit and classical-bit     *)
(* arguments when the instruction is appended and raises CircuitError.     *)
(* Executing a circuit (AerSimulator.run, Result.get_counts) is not code   *)
(* of the repository: it is modelled after sections 4.1 and 4.4 of the     *)
(* specification, exactly, over the cyclotomic integers.                   *)
(***************************************************************************)
EXTENDS Integers, Sequences, FiniteSets, TLC

\* ------------------------------------------------------------------ bounds

\* Largest qubit count a simulator or processor is constructed with.
MaxN == 3
\* Largest shot count passed to run().
MaxShots == 2
\* Single-gate calls are made while the circuit is shorter than this.
MaxOps == 1
\* Protocol calls are made while the circuit is no longer than this.
MaxLen == 2
\* Largest qubit count of a token processor (it runs a circuit per token).
MaxProcN == 2
\* Largest token id.
MaxToken == 3
\* Shots per token: process_token runs 1000 shots (the model scales it down).
TokenShots == 1

RECURSIVE Pow2(_)
Pow2(k) == IF k <= 0 THEN 1 ELSE 2 * Pow2(k - 1)

\* Angles are integers: u stands for the angle u * pi / PiUnits.
PiUnits == Pow2(MaxN)

QubitCounts == -1..MaxN
ProcQubitCounts == -1..MaxProcN
QubitArgs == {0, 1, MaxN}
AngleArgs == {PiUnits \div 2}
TeleportArgs == {0, 1}
TeleportAngles == {0, PiUnits \div 2}
ShotArgs == 1..MaxShots
Tokens == 0..MaxToken
Schemes == {"amplitude", "phase", "hybrid", "other"}

\* ------------------------------------------------- circuit instructions

H(q) == [name |-> "h", qubits |-> <<q>>, clbits |-> <<>>, params |-> <<>>]
X(q) == [name |-> "x", qubits |-> <<q>>, clbits |-> <<>>, params |-> <<>>]
CX(c, t) == [name |-> "cx", qubits |-> <<c, t>>, clbits |-> <<>>, params |-> <<>>]
RZ(angle, q) == [name |-> "rz", qubits |-> <<q>>, clbits |-> <<>>, params |-> <<angle>>]
RY(angle, q) == [name |-> "ry", qubits |-> <<q>>, clbits |-> <<>>, params |-> <<angle>>]
Measure(q, c) == [name |-> "measure", qubits |-> <<q>>, clbits |-> <<c>>, params |-> <<>>]

IsMeasure(op) == op.name = "measure"

\* QuantumCircuit(num_qubits, num_qubits): a register of a negative size is
\* refused, a size of 0 gives a circuit without that register.
CircuitAccepts(n) == n >= 0

NoSim == [live |-> FALSE, num_qubits |-> 0, circuit |-> <<>>]
NewSim(n) == [live |-> TRUE, num_qubits |-> n, circuit |-> <<>>]

\* The argument check of QuantumCircuit.h/x/cx/rz/ry/measure: every index
\* names a bit of the register, and the qubits of one instruction differ.
ValidOp(n, op) ==
    /\ \A i \in 1..Len(op.qubits) : op.qubits[i] \in 0..(n - 1)
    /\ \A i \in 1..Len(op.clbits) : op.clbits[i] \in 0..(n - 1)
    /\ \A i, j \in 1..Len(op.qubits) : i # j => op.qubits[i] # op.qubits[j]

\* A method body runs on [sim, raised]: once a call has raised, the
\* statements after it are not executed.
Begin(s) == [sim |-> s, raised |-> FALSE]

\* The wrapper swallowing the error of the call: the method returns self.
circuit_append_swallowed(r, op) ==
    IF r.raised THEN r
    ELSE IF ValidOp(r.sim.num_qubits, op)
         THEN [r EXCEPT !.sim.circuit = Append(@, op)]
         ELSE r

circuit_append(r, op) ==
    IF r.raised THEN r
    ELSE IF ValidOp(r.sim.num_qubits, op)
         THEN [r EXCEPT !.sim.circuit = Append(@, op)]
         ELSE [r EXCEPT !.raised = TRUE]

\* ------------------------------------------- QuantumSimulator (pyquant.py)

sim_apply_hadamard(r, qubit) == circuit_append(r, H(qubit))

sim_apply_cnot(r, control_qubit, target_qubit) ==
    circuit_append(r, CX(control_qubit, target_qubit))

sim_apply_phase(r, qubit, angle) == circuit_append(r, RZ(angle, qubit))

sim_measure_qubit(r, qubit, classical_bit) ==
    circuit_append(r, Measure(qubit, classical_bit))

RECURSIVE MeasureFrom(_, _)
MeasureFrom(r, i) ==
    IF i >= r.sim.num_qubits THEN r
    ELSE MeasureFrom(circuit_append(r, Measure(i, i)), i + 1)

sim_measure_all(r) == MeasureFrom(r, 0)

\* The CNOT of the pair with control and target exchanged.
sim_create_bell_pair_swapped(r) == sim_apply_cnot(sim_apply_hadamard(r, 0), 1, 0)

sim_create_bell_pair(r) == sim_apply_cnot(sim_apply_hadamard(r, 0), 0, 1)

TeleportPrepare(r, a, b) ==
    LET r1 == IF a # 0 THEN circuit_append(r, X(0)) ELSE r
    IN  IF b # 0 THEN circuit_append(r1, RZ(b, 0)) ELSE r1

TeleportChannel(r) == circuit_append(circuit_append(r, H(1)), CX(1, 2))

\* The Bell-basis change with the control and target of its CNOT exchanged.
TeleportBellBasis_swapped(r) == circuit_append(circuit_append(r, CX(1, 0)), H(0))

TeleportBellBasis(r) == circuit_append(circuit_append(r, CX(0, 1)), H(0))

\* circuit.measure([0, 1], [0, 1]) checks both lists before it appends the
\* two measurements.
TeleportMeasure(r) ==
    IF r.raised THEN r
    ELSE IF ValidOp(r.sim.num_qubits, Measure(0, 0)) /\ ValidOp(r.sim.num_qubits, Measure(1, 1))
         THEN circuit_append(circuit_append(r, Measure(0, 0)), Measure(1, 1))
         ELSE [r EXCEPT !.raised = TRUE]

sim_quantum_teleportation(r, a, b) ==
    TeleportMeasure(TeleportBellBasis(TeleportChannel(TeleportPrepare(r, a, b))))

\* ------------------------------------- executing a circuit (AerSimulator)
\* Amplitudes are kept exactly, up to one positive factor common to the
\* whole vector: an amplitude is an element of Z[zeta], zeta = exp(i*pi/h),
\* written on the basis 1, zeta, ..., zeta^(h-1) (zeta^h = -1). With
\* h = 2 * PiUnits the half-angle of the angle u is u*pi/h, so exp(i*u/2) is
\* zeta^u; a circuit whose angles are all multiples of g units is run in the
\* subring of zeta^g, with h = 2 * PiUnits / g.

RECURSIVE Gcd(_, _)
Gcd(a, b) == IF b = 0 THEN a ELSE Gcd(b, a % b)

RECURSIVE StrideFrom(_, _, _)
StrideFrom(circuit, k, g) ==
    IF k > Len(circuit) THEN g
    ELSE StrideFrom(circuit, k + 1,
                    IF Len(circuit[k].params) = 0 THEN g
                    ELSE Gcd(g, circuit[k].params[1]))

\* i = zeta^(h/2) must stay in the ring: the stride divides PiUnits.
Stride(circuit) == StrideFrom(circuit, 1, PiUnits)

ZeroC(h) == [k \in 0..(h - 1) |-> 0]
OneC(h) == [k \in 0..(h - 1) |-> IF k = 0 THEN 1 ELSE 0]

AddC(v, w) == [k \in DOMAIN v |-> v[k] + w[k]]
SubC(v, w) == [k \in DOMAIN v |-> v[k] - w[k]]

\* v * zeta^e
MulZeta(v, e, h) ==
    LET ee == e % (2 * h)
    IN  [k \in 0..(h - 1) |->
            LET j == (k - ee) % h
                m == (j + ee - k) \div h
            IN  IF m % 2 = 0 THEN v[j] ELSE 0 - v[j]]

\* v * 2cos(half-angle) and v * 2sin(half-angle), the half-angle being e*pi/h
CosMul(v, e, h) == AddC(MulZeta(v, e, h), MulZeta(v, 0 - e, h))
SinMul(v, e, h) ==
    MulZeta(SubC(MulZeta(v, e, h), MulZeta(v, 0 - e, h)), 0 - (h \div 2), h)

\* Qubit q of basis index i is bit q of i.
Bit(i, q) == (i \div Pow2(q)) % 2
Flip(i, q) == IF Bit(i, q) = 0 THEN i + Pow2(q) ELSE i - Pow2(q)

Ground(n, h) == [i \in 0..(Pow2(n) - 1) |-> IF i = 0 THEN OneC(h) ELSE ZeroC(h)]

\* g is the circuit's stride and h the size of its ring.
ApplyGate(psi, op, g, h) ==
    LET q == op.qubits[1]
    IN  CASE op.name = "h" ->
               [i \in DOMAIN psi |->
                   IF Bit(i, q) = 0 THEN AddC(psi[i], psi[Flip(i, q)])
                   ELSE SubC(psi[Flip(i, q)], psi[i])]
          [] op.name = "x" -> [i \in DOMAIN psi |-> psi[Flip(i, q)]]
          [] op.name = "cx" ->
               [i \in DOMAIN psi |->
                   IF Bit(i, q) = 1 THEN psi[Flip(i, op.qubits[2])] ELSE psi[i]]
          [] op.name = "rz" ->
               LET e == op.params[1] \div g
               IN  [i \in DOMAIN psi |->
                       IF Bit(i, q) = 0 THEN MulZeta(psi[i], 0 - e, h)
                       ELSE MulZeta(psi[i], e, h)]
          [] op.name = "ry" ->
               LET e == op.params[1] \div g
               IN  [i \in DOMAIN psi |->
                       IF Bit(i, q) = 0
                       THEN SubC(CosMul(psi[i], e, h), SinMul(psi[Flip(i, q)], e, h))
                       ELSE AddC(SinMul(psi[Flip(i, q)], e, h), CosMul(psi[i], e, h))]

Project(psi, q, b, h) == [i \in DOMAIN psi |-> IF Bit(i, q) = b THEN psi[i] ELSE ZeroC(h)]

IsZero(psi, h) == \A i \in DOMAIN psi : psi[i] = ZeroC(h)

\* One shot's possible courses: the classical register and the state after
\* each measurement outcome of non-zero probability.
ApplyOp(branches, op, g, h) ==
    IF IsMeasure(op)
    THEN {x \in {[creg |-> [br.creg EXCEPT ![op.clbits[1]] = b],
                  psi |-> Project(br.psi, op.qubits[1], b, h)] :
                     br \in branches, b \in {0, 1}} : ~IsZero(x.psi, h)}
    ELSE {[creg |-> br.creg, psi |-> ApplyGate(br.psi, op, g, h)] : br \in branches}

RECURSIVE Execute(_, _, _, _, _)
Execute(branches, circuit, k, g, h) ==
    IF k > Len(circuit) THEN branches
    ELSE Execute(ApplyOp(branches, circuit[k], g, h), circuit, k + 1, g, h)

BitChar(b) == IF b = 0 THEN "0" ELSE "1"

\* The key of a classical register: one character per bit, bit 0 last.
RECURSIVE FormatKey(_, _)
FormatKey(creg, n) ==
    IF n = 0 THEN "" ELSE BitChar(creg[n - 1]) \o FormatKey(creg, n - 1)

Outcomes(n, circuit) ==
    LET g == Stride(circuit)
        h == (2 * PiUnits) \div g
    IN  {FormatKey(br.creg, n) :
            br \in Execute({[creg |-> [c \in 0..(n - 1) |-> 0], psi |-> Ground(n, h)]},
                           circuit, 1, g, h)}

HasMeasure(circuit) == \E k \in 1..Len(circuit) : IsMeasure(circuit[k])

Histogram(draws) ==
    [key \in {draws[i] : i \in DOMAIN draws} |->
        Cardinality({i \in DOMAIN draws : draws[i] = key})]

\* get_counts of a job of `shots` shots: one outcome per shot. A circuit
\* that measures nothing has no counts, and get_counts raises.
AerCounts(n, circuit, shots) ==
    IF ~HasMeasure(circuit)
    THEN {[kind |-> "raise", exc |-> "QiskitError"]}
    ELSE {[kind |-> "counts", counts |-> Histogram(draws)] :
             draws \in [1..shots -> Outcomes(n, circuit)]}

SelfRet == [kind |-> "self"]
Raise(exc) == [kind |-> "raise", exc |-> exc]

\* run() not passing its shots on: the job runs more shots than were asked.
sim_run_unpassed(s, shots) ==
    {[sim |-> s, ret |-> c] : c \in AerCounts(s.num_qubits, s.circuit, MaxShots + 1)}

\* run() starting a new circuit once the job is done.
sim_run_consuming(s, shots) ==
    {[sim |-> [s EXCEPT !.circuit = <<>>], ret |-> c] :
        c \in AerCounts(s.num_qubits, s.circuit, shots)}

\* QuantumSimulator.run: the possible (simulator after, value returned).
sim_run(s, shots) ==
    {[sim |-> s, ret |-> c] : c \in AerCounts(s.num_qubits, s.circuit, shots)}

\* --------------------- QuantumTokenProcessor (quantum_token_processor.py)

NoProc == [live |-> FALSE, n_qubits |-> 0]

\* (token_id % 2**n) / 2**n * pi
AmplitudeAngle(n, token_id) == ((token_id % Pow2(n)) * PiUnits) \div Pow2(n)

\* (token_id % 2**n) / 2**n * 2 * pi
PhaseAngle(n, token_id) == ((token_id % Pow2(n)) * 2 * PiUnits) \div Pow2(n)

RECURSIVE CnotChain(_, _, _)
CnotChain(r, n, i) ==
    IF i >= n - 1 THEN r ELSE CnotChain(sim_apply_cnot(r, i, i + 1), n, i + 1)

RECURSIVE HadamardAll(_, _, _)
HadamardAll(r, n, i) ==
    IF i >= n THEN r ELSE HadamardAll(circuit_append(r, H(i)), n, i + 1)

proc_amplitude_encoding(r, n, token_id) ==
    CnotChain(circuit_append(r, RY(AmplitudeAngle(n, token_id), 0)), n, 0)

proc_phase_encoding(r, n, token_id) ==
    CnotChain(circuit_append(HadamardAll(r, n, 0), RZ(PhaseAngle(n, token_id), 0)), n, 0)

\* token_id % 2**(n-1) and token_id // 2**(n-1); with n = 0 the divisor is
\* 0.5, the remainder 0.0 and the quotient 2 * token_id.
AmplitudePart(n, token_id) == IF n = 0 THEN 0 ELSE token_id % Pow2(n - 1)
PhasePart(n, token_id) == IF n = 0 THEN 2 * token_id ELSE token_id \div Pow2(n - 1)

\* The hybrid encoding handing the whole token to both encoders.
proc_hybrid_encoding_whole(r, n, token_id) ==
    proc_phase_encoding(proc_amplitude_encoding(r, n, token_id), n, token_id)

proc_hybrid_encoding(r, n, token_id) ==
    proc_phase_encoding(proc_amplitude_encoding(r, n, AmplitudePart(n, token_id)),
                        n, PhasePart(n, token_id))

\* encoding_schemes.get(scheme, self._hybrid_encoding)
Encode(r, n, token_id, scheme) ==
    CASE scheme = "amplitude" -> proc_amplitude_encoding(r, n, token_id)
      [] scheme = "phase" -> proc_phase_encoding(r, n, token_id)
      [] OTHER -> proc_hybrid_encoding(r, n, token_id)

\* {k: v / 1000 for k, v in results.items()}
ProbDist(counts) == [key \in DOMAIN counts |-> <<counts[key], TokenShots>>]

\* process_token encoding into the simulator it finds instead of a new one.
proc_process_token_reused(s, n, token_id, scheme) ==
    LET r == Encode(Begin(s), n, token_id, scheme)
        m == sim_measure_all(r)
    IN  IF m.raised THEN {[sim |-> m.sim, ret |-> Raise("CircuitError")]}
        ELSE {[sim |-> o.sim,
               ret |-> IF o.ret.kind = "counts"
                       THEN [kind |-> "prob", dist |-> ProbDist(o.ret.counts)]
                       ELSE o.ret] : o \in sim_run(m.sim, TokenShots)}

\* process_token: the possible (simulator after, value returned). s is the
\* processor's simulator before the call.
proc_process_token(s, n, token_id, scheme) ==
    LET r == Encode(Begin(NewSim(n)), n, token_id, scheme)
        m == sim_measure_all(r)
    IN  IF m.raised THEN {[sim |-> m.sim, ret |-> Raise("CircuitError")]}
        ELSE {[sim |-> o.sim,
               ret |-> IF o.ret.kind = "counts"
                       THEN [kind |-> "prob", dist |-> ProbDist(o.ret.counts)]
                       ELSE o.ret] : o \in sim_run(m.sim, TokenShots)}

\* ------------------------------------------------------------ the state

VARIABLES
    sim,    \* the simulator in use: [live, num_qubits, circuit]
    proc,   \* the token processor owning sim, if any: [live, n_qubits]
    ret,    \* what the last call returned or raised
    last,   \* the last call and its arguments
    calls,  \* the circuit-building calls on sim that returned, since it was made
    clean   \* no circuit-building call on sim has raised

vars == <<sim, proc, ret, last, calls, clean>>

Call(op, a, b) == [op |-> op, a |-> a, b |-> b, scheme |-> ""]
TokCall(op, a, scheme) == [op |-> op, a |-> a, b |-> 0, scheme |-> scheme]

Init ==
    /\ sim = NoSim
    /\ proc = NoProc
    /\ ret = [kind |-> "none"]
    /\ last = Call("none", 0, 0)
    /\ calls = <<>>
    /\ clean = TRUE

\* The outcome of a circuit-building method: the simulator it leaves, and
\* self or the CircuitError.
Built(r) ==
    /\ sim' = r.sim
    /\ ret' = IF r.raised THEN Raise("CircuitError") ELSE SelfRet
    /\ calls' = IF r.raised THEN calls ELSE Append(calls, last'.op)
    /\ clean' = (clean /\ ~r.raised)
    /\ UNCHANGED proc

CanBuild == sim.live /\ Len(sim.circuit) <= MaxLen /\ Len(calls) <= MaxLen

\* sim = QuantumSimulator(num_qubits)
Construct ==
    \E n \in QubitCounts :
        /\ last' = Call("QuantumSimulator", n, 0)
        /\ IF CircuitAccepts(n)
           THEN /\ sim' = NewSim(n)
                /\ proc' = NoProc
                /\ calls' = <<>>
                /\ clean' = TRUE
                /\ ret' = [kind |-> "new"]
           ELSE /\ ret' = Raise("CircuitError")
                /\ UNCHANGED <<sim, proc, calls, clean>>

apply_hadamard ==
    /\ CanBuild /\ Len(sim.circuit) < MaxOps
    /\ \E qubit \in QubitArgs :
        /\ last' = Call("apply_hadamard", qubit, 0)
        /\ Built(sim_apply_hadamard(Begin(sim), qubit))

apply_cnot ==
    /\ CanBuild /\ Len(sim.circuit) < MaxOps
    /\ \E control_qubit \in QubitArgs, target_qubit \in QubitArgs :
        /\ last' = Call("apply_cnot", control_qubit, target_qubit)
        /\ Built(sim_apply_cnot(Begin(sim), control_qubit, target_qubit))

apply_phase ==
    /\ CanBuild /\ Len(sim.circuit) < MaxOps
    /\ \E qubit \in QubitArgs, angle \in AngleArgs :
        /\ last' = Call("apply_phase", qubit, angle)
        /\ Built(sim_apply_phase(Begin(sim), qubit, angle))

measure_qubit ==
    /\ CanBuild /\ Len(sim.circuit) < MaxOps
    /\ \E qubit \in QubitArgs, classical_bit \in QubitArgs :
        /\ last' = Call("measure_qubit", qubit, classical_bit)
        /\ Built(sim_measure_qubit(Begin(sim), qubit, classical_bit))

measure_all ==
    /\ CanBuild
    /\ last' = Call("measure_all", 0, 0)
    /\ Built(sim_measure_all(Begin(sim)))

create_bell_pair ==
    /\ CanBuild
    /\ last' = Call("create_bell_pair", 0, 0)
    /\ Built(sim_create_bell_pair(Begin(sim)))

quantum_teleportation ==
    /\ CanBuild
    /\ \E a \in TeleportArgs, b \in TeleportAngles :
        /\ last' = Call("quantum_teleportation", a, b)
        /\ Built(sim_quantum_teleportation(Begin(sim), a, b))

run ==
    /\ sim.live
    /\ \E shots \in ShotArgs :
        /\ last' = Call("run", shots, 0)
        /\ \E o \in sim_run(sim, shots) :
            /\ sim' = o.sim
            /\ ret' = o.ret
        /\ UNCHANGED <<proc, calls, clean>>

\* processor = QuantumTokenProcessor(n_qubits = n): without the environment's
\* token the constructor raises before it builds anything.
ProcessorInit ==
    \E n \in ProcQubitCounts, hf_token \in BOOLEAN :
        /\ last' = Call("QuantumTokenProcessor", n, IF hf_token THEN 1 ELSE 0)
        /\ IF ~hf_token
           THEN /\ ret' = Raise("ValueError")
                /\ UNCHANGED <<sim, proc, calls, clean>>
           ELSE IF CircuitAccepts(n)
           THEN /\ proc' = [live |-> TRUE, n_qubits |-> n]
                /\ sim' = NewSim(n)
                /\ calls' = <<>>
                /\ clean' = TRUE
                /\ ret' = [kind |-> "new"]
           ELSE /\ ret' = Raise("CircuitError")
                /\ UNCHANGED <<sim, proc, calls, clean>>

process_token ==
    /\ proc.live
    /\ \E token_id \in Tokens, scheme \in Schemes :
        /\ last' = TokCall("process_token", token_id, scheme)
        /\ \E o \in proc_process_token(sim, proc.n_qubits, token_id, scheme) :
            /\ sim' = o.sim
            /\ ret' = o.ret
        /\ calls' = <<>>
        /\ clean' = TRUE
        /\ UNCHANGED proc

Next ==
    \/ Construct
    \/ apply_hadamard
    \/ apply_cnot
    \/ apply_phase
    \/ measure_qubit
    \/ measure_all
    \/ create_bell_pair
    \/ quantum_teleportation
    \/ run

\* The simulator's interface: examples.py drives it this way.
Spec == Init /\ [][Next]_vars

TokNext ==
    \/ ProcessorInit
    \/ process_token
    \/ apply_hadamard
    \/ measure_all

\* The token processor, and calls on its simulator between two tokens.
TokSpec == Init /\ [][TokNext]_vars

\* ------------------------------------------------------------ properties

RECURSIVE Total(_, _)
Total(counts, keys) ==
    IF keys = {} THEN 0
    ELSE LET k == CHOOSE x \in keys : TRUE
         IN  counts[k] + Total(counts, keys \ {k})

ValidHistogram(counts, shots) ==
    /\ \A k \in DOMAIN counts : counts[k] \in Nat
    /\ Total(counts, DOMAIN counts) = shots

\* C1: a histogram returned by run(shots), shots >= 1, has non-negative
\* counts whose sum is shots.
C1_CountsSumToShots ==
    (last.op = "run" /\ ret.kind = "counts") => ValidHistogram(ret.counts, last.a)

C1_Witness ==
    /\ last.op = "run" /\ last.a = MaxShots
    /\ ret.kind = "counts"
    /\ Cardinality(DOMAIN ret.counts) >= 2

BellRun ==
    /\ sim.num_qubits = 2
    /\ clean
    /\ calls = <<"create_bell_pair", "measure_all">>
    /\ last.op = "run"

\* C2: on a 2-qubit simulator, after create_bell_pair() and measure_all()
\* and nothing else, run() returns a histogram whose keys are among "00"
\* and "11".
C2_BellKeys ==
    BellRun => (ret.kind = "counts" /\ DOMAIN ret.counts \subseteq {"00", "11"})

C2_Witness == BellRun /\ ret.kind = "counts" /\ DOMAIN ret.counts = {"00", "11"}

Chain(n) == [i \in 1..(n - 1) |-> CX(i - 1, i)]
Hadamards(n) == [i \in 1..n |-> H(i - 1)]
Measures(n) == [i \in 1..n |-> Measure(i - 1, i - 1)]

AmplitudeOps(n, t) == <<RY(((t % Pow2(n)) * PiUnits) \div Pow2(n), 0)>> \o Chain(n)
PhaseOps(n, t) ==
    Hadamards(n) \o <<RZ(((t % Pow2(n)) * 2 * PiUnits) \div Pow2(n), 0)>> \o Chain(n)

TokenCircuit(n, t, scheme) ==
    (CASE scheme = "amplitude" -> AmplitudeOps(n, t)
       [] scheme = "phase" -> PhaseOps(n, t)
       [] OTHER -> AmplitudeOps(n, t % Pow2(n - 1)) \o PhaseOps(n, t \div Pow2(n - 1)))
    \o Measures(n)

\* C3: the circuit process_token builds and runs is a function of the token,
\* the scheme and the qubit count alone: the encoding on an empty circuit,
\* then a measurement of every qubit, whatever was called before.
C3_TokenCircuitFresh ==
    (last.op = "process_token" /\ ret.kind = "prob")
        => sim.circuit = TokenCircuit(proc.n_qubits, last.a, last.scheme)

C3_Witness ==
    /\ last.op = "process_token" /\ ret.kind = "prob"
    /\ last.scheme = "phase" /\ last.a = MaxToken
    /\ proc.n_qubits = MaxProcN

\* C4: run() leaves the simulator as it was (operation log, qubit and
\* classical-bit counts), and a run following a run that returned a
\* histogram returns a valid histogram too.
C4_RunLeavesCircuit ==
    [][last'.op = "run" =>
          /\ sim' = sim
          /\ (last.op = "run" /\ ret.kind = "counts")
                => (ret'.kind = "counts" /\ ValidHistogram(ret'.counts, last'.a))]_vars

C4_Witness ==
    /\ last.op = "run" /\ ret.kind = "counts"
    /\ Len(sim.circuit) > sim.num_qubits
    /\ sim.num_qubits = MaxN

OutOfRangeCall ==
    \/ last.op \in {"apply_hadamard", "apply_phase", "measure_qubit"}
          /\ last.a >= sim.num_qubits
    \/ last.op = "apply_cnot"
          /\ (last.a >= sim.num_qubits \/ last.b >= sim.num_qubits)
    \/ last.op = "create_bell_pair" /\ sim.num_qubits < 2
    \/ last.op = "quantum_teleportation" /\ sim.num_qubits < 3

InRange(n, circuit) ==
    \A k \in 1..Len(circuit) :
        /\ \A i \in 1..Len(circuit[k].qubits) : circuit[k].qubits[i] < n
        /\ \A i \in 1..Len(circuit[k].clbits) : circuit[k].clbits[i] < n

\* C6: a call that names a qubit index >= the qubit count (apply_hadamard,
\* apply_cnot, apply_phase, measure_qubit, create_bell_pair on fewer than 2
\* qubits, quantum_teleportation on fewer than 3) raises to its caller and
\* returns no histogram, and no instruction on such an index is in the
\* circuit.
C6_OutOfRangeRaises ==
    /\ OutOfRangeCall => ret = Raise("CircuitError")
    /\ InRange(sim.num_qubits, sim.circuit)

C6_Witness ==
    /\ last.op = "create_bell_pair" /\ sim.num_qubits = 1
    /\ ret = Raise("CircuitError")
    /\ sim.circuit = <<H(0)>>

\* C8: constructing a simulator with a qubit count of 0 or less is rejected,
\* and no circuit is created.
C8_NonPositiveRejected ==
    /\ (last.op = "QuantumSimulator" /\ last.a <= 0) => ret.kind = "raise"
    /\ sim.live => sim.num_qubits >= 1

TeleportOps(a, b) ==
    (IF a # 0 THEN <<X(0)>> ELSE <<>>)
    \o (IF b # 0 THEN <<RZ(b, 0)>> ELSE <<>>)
    \o <<H(1), CX(1, 2), CX(0, 1), H(0), Measure(0, 0), Measure(1, 1)>>

TeleportOnEmpty ==
    /\ sim.num_qubits = 3
    /\ clean
    /\ calls = <<"quantum_teleportation">>
    /\ last.op = "quantum_teleportation"

\* C9: quantum_teleportation([a, b]) on an empty 3-qubit circuit appends
\* X(0) iff a # 0, RZ(b) on qubit 0 iff b # 0, then H(1), CX(1,2), CX(0,1),
\* H(0), Measure(0->0), Measure(1->1), and nothing else.
C9_TeleportGates == TeleportOnEmpty => sim.circuit = TeleportOps(last.a, last.b)

C9_Witness == TeleportOnEmpty /\ last.a # 0 /\ last.b # 0 /\ Len(sim.circuit) = 8

Gates(circuit) == {k \in 1..Len(circuit) : ~IsMeasure(circuit[k])}

HybridRun == last.op = "process_token" /\ last.scheme = "hybrid" /\ ret.kind = "prob"

\* C10: the hybrid encoding of token t on n qubits is the amplitude encoding
\* of t mod 2^(n-1) (RY on qubit 0, then CX(i, i+1) for i = 0..n-2) followed
\* by the phase encoding of t div 2^(n-1) (H on every qubit, RZ on qubit 0,
\* the same CX chain): 3n gates.
C10_HybridGates ==
    HybridRun =>
        LET n == proc.n_qubits
            c == sim.circuit
            amp == last.a % Pow2(n - 1)
            ph == last.a \div Pow2(n - 1)
        IN  /\ Cardinality(Gates(c)) = 3 * n
            /\ Gates(c) = 1..(3 * n)
            /\ c[1] = RY(((amp % Pow2(n)) * PiUnits) \div Pow2(n), 0)
            /\ \A i \in 0..(n - 2) : c[2 + i] = CX(i, i + 1)
            /\ \A i \in 0..(n - 1) : c[n + 1 + i] = H(i)
            /\ c[2 * n + 1] = RZ(((ph % Pow2(n)) * 2 * PiUnits) \div Pow2(n), 0)
            /\ \A i \in 0..(n - 2) : c[2 * n + 2 + i] = CX(i, i + 1)

C10_Witness == HybridRun /\ proc.n_qubits = MaxProcN /\ last.a = MaxToken

====
